---- MODULE Spec2Model ----
(***************************************************************************)
(* The symbol-index / modifier state machine of EekKeyboard                *)
(* (eek-keyboard.c): group, level, modifier mask and modifier behaviour,   *)
(* driven by key-pressed / key-released signals and the public setters;   *)
(* the application around it (eekboard.c): keystroke listener, connected   *)
(* handlers and layout reload; and the views of a layout with the actions  *)
(* of their buttons (gr+polytonic.yaml); the start of the application     *)
(* (eekboard_new and main); and the yamlfmt tool.                          *)
(*                                                                         *)
(* An EekModifierType value is modelled as the set of its bits, so that    *)
(* a | b is a \cup b, a & ~b is a \ b and a ^ b is the symmetric           *)
(* difference.                                                             *)
(***************************************************************************)
EXTENDS Integers, Sequences, FiniteSets, TLC

VARIABLES
    group,              \* priv->group
    level,              \* priv->level
    modifiers,          \* priv->modifiers
    modifier_behavior,  \* priv->modifier_behavior
    last,               \* the operation that produced this state, with the state it started from
    emitted,            \* symbol-index-changed emissions of that operation, in order
    script,             \* the operations since construction, while they follow a scenario
    lockSeq,            \* progress of a press/release/press/release run of one key under Lock
    latchSeq,           \* progress of a modifier press followed by presses of one key under Latch
    app_modifiers,      \* eekboard->modifiers
    sections,           \* the keyboard's children, in the order the layout added them
    pressed,            \* the keys whose pressed flag is set
    alast,              \* the keystroke the listener handled last: its result and what it started from
    current_view,       \* the view shown
    locked_view,        \* the views marked locked
    loaded_views,       \* the names of the views of the loaded layout
    vlast,              \* the button event handled last, what it started from and the runs it continues
    main_pc,            \* where main is
    eekboard,           \* main's pointer eekboard
    heap,               \* the Eekboard structure eekboard_new allocates
    used,               \* what main has done through the pointer
    env,                \* whether the display, fakekey and the layout can be had
    opts,               \* the command line: which of --list-models, --list-layouts, --list-options
    file,               \* the text of the file yamlfmt is run on
    want_apply,         \* yamlfmt: --apply was given
    fmt_pc,             \* where yamlfmt is
    exit_status,        \* yamlfmt's exit status
    written,            \* yamlfmt: the texts written to the file, in order
    given               \* yamlfmt: the text of the file when the run started

appvars == <<app_modifiers, sections, pressed, alast>>
viewvars == <<current_view, locked_view, loaded_views, vlast>>
mainvars == <<main_pc, eekboard, heap, used, env, opts>>
fmtvars == <<file, want_apply, fmt_pc, exit_status, written, given>>

vars == <<group, level, modifiers, modifier_behavior, last, emitted,
          script, lockSeq, latchSeq, app_modifiers, sections, pressed, alast,
          current_view, locked_view, loaded_views, vlast,
          main_pc, eekboard, heap, used, env, opts,
          file, want_apply, fmt_pc, exit_status, written, given>>

(* main has not been started / has reached gtk_main with everything built; *)
(* yamlfmt has not been started.                                           *)
MainNotStarted ==
    /\ main_pc = ""
    /\ eekboard = "unset"
    /\ heap = "none"
    /\ used = {}
    /\ env = [display |-> TRUE, fakekey |-> TRUE, layout |-> TRUE]
    /\ opts = [list |-> ""]

MainInLoop ==
    /\ main_pc = "gtk_main"
    /\ eekboard = "valid"
    /\ heap = "live"
    /\ used = {"create_widget", "gtk_main"}
    /\ env = [display |-> TRUE, fakekey |-> TRUE, layout |-> TRUE]
    /\ opts = [list |-> ""]

FmtNotStarted ==
    /\ file = <<>>
    /\ want_apply = FALSE
    /\ fmt_pc = ""
    /\ exit_status = 0
    /\ written = <<>>
    /\ given = <<>>

----------------------------------------------------------------------------
(* Bounds on the arguments callers pass to the public setters. *)
MaxGroup == 1
MaxLevel == 3

Groups == 0..MaxGroup
Levels == 0..MaxLevel

----------------------------------------------------------------------------
(* Modifier bits and behaviours. *)
EEK_SHIFT_MASK   == {"SHIFT"}
EEK_CONTROL_MASK == {"CONTROL"}
EEK_MOD5_MASK    == {"MOD5"}

EEK_MODIFIER_BEHAVIOR_NONE  == "NONE"
EEK_MODIFIER_BEHAVIOR_LATCH == "LATCH"
EEK_MODIFIER_BEHAVIOR_LOCK  == "LOCK"

Behaviors == {EEK_MODIFIER_BEHAVIOR_NONE, EEK_MODIFIER_BEHAVIOR_LATCH,
              EEK_MODIFIER_BEHAVIOR_LOCK}

BitXor(a, b) == (a \ b) \cup (b \ a)

----------------------------------------------------------------------------
(* Keys and their symbol matrices. *)
NULL == [keysym |-> "NULL", modifier_mask |-> {}]

Sym(name, mask) == [keysym |-> name, modifier_mask |-> mask]

KeyNames == {"Shift_L", "Shift_R", "ISO_Level3_Shift", "Control_L", "a", "q"}

(* The loaded keys.  Shift_L carries SHIFT in every cell; Shift_R is a      *)
(* one-level key; ISO_Level3_Shift has no level-3 cell; Control_L carries   *)
(* a bit that does not take part in the level; "a" has two levels in group  *)
(* 0 only; "q" has four levels in every group.                              *)
symbol_matrix(key, g, l) ==
    CASE key = "Shift_L" /\ l \in 0..3 -> Sym("Shift_L", EEK_SHIFT_MASK)
      [] key = "Shift_R" /\ l = 0 -> Sym("Shift_R", EEK_SHIFT_MASK)
      [] key = "ISO_Level3_Shift" /\ l \in 0..2 -> Sym("ISO_Level3_Shift", EEK_MOD5_MASK)
      [] key = "Control_L" /\ g = 0 /\ l \in 0..1 -> Sym("Control_L", EEK_CONTROL_MASK)
      [] key = "a" /\ g = 0 /\ l = 0 -> Sym("a", {})
      [] key = "a" /\ g = 0 /\ l = 1 -> Sym("A", {})
      [] key = "q" /\ l = 0 -> Sym("q", {})
      [] key = "q" /\ l = 1 -> Sym("Q", {})
      [] key = "q" /\ l = 2 -> Sym("at", {})
      [] key = "q" /\ l = 3 -> Sym("Greek_OMEGA", {})
      [] OTHER -> NULL

(* symbol_at(group, level): the stored symbol, or none for an empty cell. *)
eek_key_get_symbol_at_index(key, g, l) == symbol_matrix(key, g, l)

eek_symbol_get_modifier_mask(symbol) == symbol.modifier_mask

----------------------------------------------------------------------------
(* The private data of the keyboard during one operation: the fields plus   *)
(* the notifications emitted so far.                                        *)
Priv == [group |-> group, level |-> level, modifiers |-> modifiers,
         modifier_behavior |-> modifier_behavior, emitted |-> <<>>]

(* What a handler of symbol-index-changed reads from the keyboard when it   *)
(* runs: priv->group and priv->level are assigned before the emission.      *)
Notification_BeforeStore(p, g, l) ==
    [group |-> p.group, level |-> p.level, modifiers |-> p.modifiers]

Notification(p, g, l) == [group |-> g, level |-> l, modifiers |-> p.modifiers]

(* Variant: the notification is emitted whether or not the index changes. *)
eek_keyboard_real_set_symbol_index_AlwaysEmit(p, g, l) ==
    [p EXCEPT !.group = g, !.level = l,
              !.emitted = Append(@, Notification(p, g, l))]

eek_keyboard_real_set_symbol_index(p, g, l) ==
    IF p.group # g \/ p.level # l
    THEN [p EXCEPT !.group = g, !.level = l,
                   !.emitted = Append(@, Notification(p, g, l))]
    ELSE p

eek_keyboard_set_symbol_index(p, g, l) == eek_keyboard_real_set_symbol_index(p, g, l)

eek_keyboard_get_group(p) == p.group

eek_keyboard_get_level(p) == p.level

(* Variant: the level is not carried over. *)
eek_keyboard_set_group_Level0(p, g) == eek_keyboard_set_symbol_index(p, g, 0)

eek_keyboard_set_group(p, g) ==
    eek_keyboard_set_symbol_index(p, g, eek_keyboard_get_level(p))

(* Variant: the level is stored in group 0. *)
eek_keyboard_set_level_Group0(p, l) == eek_keyboard_set_symbol_index(p, 0, l)

eek_keyboard_set_level(p, l) ==
    eek_keyboard_set_symbol_index(p, eek_keyboard_get_group(p), l)

(* Variant: CONTROL counts as well. *)
LevelFromModifiers_Control(m) ==
    (IF m \cap EEK_CONTROL_MASK # {} THEN 4 ELSE 0)
    + (IF m \cap EEK_MOD5_MASK # {} THEN 2 ELSE 0)
    + (IF m \cap EEK_SHIFT_MASK # {} THEN 1 ELSE 0)

(* level = (modifiers & MOD5 ? 2 : 0) | (modifiers & SHIFT ? 1 : 0) *)
LevelFromModifiers(m) ==
    (IF m \cap EEK_MOD5_MASK # {} THEN 2 ELSE 0)
    + (IF m \cap EEK_SHIFT_MASK # {} THEN 1 ELSE 0)

(* Variant: only SHIFT is looked at. *)
set_level_from_modifiers_ShiftOnly(p) ==
    eek_keyboard_set_level(p, IF p.modifiers \cap EEK_SHIFT_MASK # {} THEN 1 ELSE 0)

set_level_from_modifiers(p) ==
    eek_keyboard_set_level(p, LevelFromModifiers(p.modifiers))

(* Variant: Latch does not reset the mask. *)
PressReset_Never(p) == p

(* if (modifier_behavior == LATCH) modifiers = 0; *)
PressReset(p) ==
    IF p.modifier_behavior = EEK_MODIFIER_BEHAVIOR_LATCH
    THEN [p EXCEPT !.modifiers = {}]
    ELSE p

(* Variant: Lock sets the bits instead of toggling them. *)
PressApply_LockOr(p, modifier) ==
    IF modifier # {} /\ p.modifier_behavior \in Behaviors
    THEN [p EXCEPT !.modifiers = @ \cup modifier]
    ELSE p

(* if (modifier != 0) { None, Latch: modifiers |= modifier; Lock: ^= } *)
PressApply(p, modifier) ==
    IF modifier # {}
    THEN IF p.modifier_behavior \in {EEK_MODIFIER_BEHAVIOR_NONE,
                                     EEK_MODIFIER_BEHAVIOR_LATCH}
         THEN [p EXCEPT !.modifiers = @ \cup modifier]
         ELSE IF p.modifier_behavior = EEK_MODIFIER_BEHAVIOR_LOCK
              THEN [p EXCEPT !.modifiers = BitXor(@, modifier)]
              ELSE p
    ELSE p

eek_keyboard_real_key_pressed(p, key) ==
    LET p1 == PressReset(p)
        symbol == eek_key_get_symbol_at_index(key, p1.group, p1.level)
        modifier == eek_symbol_get_modifier_mask(symbol)
    IN  IF symbol = NULL
        THEN p1
        ELSE set_level_from_modifiers(PressApply(p1, modifier))

(* Variant: the bits are cleared under every behaviour. *)
ReleaseApply_AnyBehavior(p, modifier) ==
    IF modifier # {} THEN [p EXCEPT !.modifiers = @ \ modifier] ELSE p

(* Variant: the bits are never cleared. *)
ReleaseApply_Never(p, modifier) == p

(* if (modifier != 0) { None: modifiers &= ~modifier; } *)
ReleaseApply(p, modifier) ==
    IF modifier # {}
    THEN IF p.modifier_behavior = EEK_MODIFIER_BEHAVIOR_NONE
         THEN [p EXCEPT !.modifiers = @ \ modifier]
         ELSE p
    ELSE p

eek_keyboard_real_key_released(p, key) ==
    LET symbol == eek_key_get_symbol_at_index(key, p.group, p.level)
        modifier == eek_symbol_get_modifier_mask(symbol)
    IN  IF symbol = NULL
        THEN p
        ELSE set_level_from_modifiers(ReleaseApply(p, modifier))

(* Variant: switching the behaviour drops the modifiers. *)
eek_keyboard_set_modifier_behavior_ClearMask(p, b) ==
    [p EXCEPT !.modifier_behavior = b, !.modifiers = {}]

eek_keyboard_set_modifier_behavior(p, b) == [p EXCEPT !.modifier_behavior = b]

----------------------------------------------------------------------------
(* Observers. *)

(* The operation just performed: its name, its key or behaviour argument,   *)
(* its integer arguments, the symbol the handler resolved (NULL if none or  *)
(* not a key event) and the fields as they were when the operation started. *)
Op(name, key, args, symbol) ==
    [op |-> name, key |-> key, args |-> args, symbol |-> symbol,
     group |-> group, level |-> level, modifiers |-> modifiers]

(* The symbol a key event resolves: a press under Latch looks the symbol up *)
(* after the mask reset, at the group and level the event started from.     *)
Resolved(key) == eek_key_get_symbol_at_index(key, group, level)

Ev(name, key) == [op |-> name, key |-> key]

(* Shift, then "a", then Shift released, on a new keyboard (behaviour None). *)
ScriptNone == <<Ev("press", "Shift_L"), Ev("press", "a"), Ev("release", "Shift_L")>>

(* Lock selected, then Shift, "a", Shift, "a", each released after its press. *)
ScriptLock == <<Ev("set_modifier_behavior", EEK_MODIFIER_BEHAVIOR_LOCK),
                Ev("press", "Shift_L"), Ev("release", "Shift_L"),
                Ev("press", "a"), Ev("release", "a"),
                Ev("press", "Shift_L"), Ev("release", "Shift_L"),
                Ev("press", "a")>>

IsPrefix(s, t) == Len(s) <= Len(t) /\ \A i \in 1..Len(s) : s[i] = t[i]

OffScript == [on |-> FALSE, events |-> <<>>, symbols |-> <<>>]

ScriptStep(name, key, symbol) ==
    LET events == Append(script.events, Ev(name, key))
    IN  IF script.on /\ (IsPrefix(events, ScriptNone) \/ IsPrefix(events, ScriptLock))
        THEN [on |-> TRUE, events |-> events,
              symbols |-> IF name = "press" /\ key = "a"
                          THEN Append(script.symbols, symbol)
                          ELSE script.symbols]
        ELSE OffScript

(* lockSeq.n counts the events of a run press, release, press, release of   *)
(* lockSeq.key that began under Lock with the bits lockSeq.m of the pressed *)
(* symbol clear; lockSeq.modifiers and lockSeq.level are the values before  *)
(* the run and lockSeq.second is the mask of the symbol the second press    *)
(* resolved.                                                                *)
NoLockSeq == [n |-> 0, key |-> "", m |-> {}, modifiers |-> {}, level |-> 0, second |-> {}]

LockSeqStep(name, key) ==
    LET symbol == Resolved(key)
        m == eek_symbol_get_modifier_mask(symbol)
    IN  IF modifier_behavior # EEK_MODIFIER_BEHAVIOR_LOCK \/ name \notin {"press", "release"}
        THEN NoLockSeq
        ELSE IF lockSeq.n \in {1, 3} /\ key = lockSeq.key /\ name = "release"
        THEN [lockSeq EXCEPT !.n = @ + 1]
        ELSE IF lockSeq.n = 2 /\ key = lockSeq.key /\ name = "press"
        THEN [lockSeq EXCEPT !.n = 3, !.second = m]
        ELSE IF name = "press" /\ m # {} /\ m \cap modifiers = {}
        THEN [n |-> 1, key |-> key, m |-> m, modifiers |-> modifiers,
              level |-> level, second |-> {}]
        ELSE NoLockSeq

(* latchSeq.n = 1 after a press under Latch, from an empty mask, of a key   *)
(* whose symbol carries the bits latchSeq.m; 2 after the next press, of a   *)
(* key latchSeq.key that resolved the modifier-less symbol latchSeq.first;  *)
(* 3 after the press after that, if it is of the same key, which resolved   *)
(* latchSeq.second.  Releases in between do not end the run.                *)
NoLatchSeq == [n |-> 0, m |-> {}, key |-> "", first |-> NULL, second |-> NULL]

LatchSeqStep(name, key) ==
    LET symbol == Resolved(key)
        m == eek_symbol_get_modifier_mask(symbol)
    IN  IF modifier_behavior # EEK_MODIFIER_BEHAVIOR_LATCH \/ name \notin {"press", "release"}
        THEN NoLatchSeq
        ELSE IF name = "release"
        THEN latchSeq
        ELSE IF latchSeq.n = 1 /\ symbol # NULL /\ m = {}
        THEN [latchSeq EXCEPT !.n = 2, !.key = key, !.first = symbol]
        ELSE IF latchSeq.n = 2 /\ key = latchSeq.key
        THEN [latchSeq EXCEPT !.n = 3, !.second = symbol]
        ELSE IF m # {} /\ modifiers = {}
        THEN [n |-> 1, m |-> m, key |-> "", first |-> NULL, second |-> NULL]
        ELSE NoLatchSeq

(* What the observers of the application and of the views hold while no    *)
(* keystroke and no button event is the last operation.                     *)
NoKeystroke ==
    [keycode |-> 0, type |-> "", key |-> "", handled |-> FALSE,
     app_modifiers |-> {}, pressed |-> {}, forwarded |-> <<>>,
     unreleased |-> {}, reloaded |-> FALSE]

NoButtonEvent ==
    [button |-> "", event |-> "", view |-> "", locked |-> {},
     notified |-> FALSE, effect |-> "", run |-> 0, start |-> "",
     startLocked |-> {}, shown |-> ""]

Observe(name, key, args, symbol) ==
    /\ last' = Op(name, key, args, symbol)
    /\ script' = ScriptStep(name, key, symbol)
    /\ lockSeq' = LockSeqStep(name, key)
    /\ latchSeq' = LatchSeqStep(name, key)
    /\ alast' = NoKeystroke
    /\ vlast' = NoButtonEvent
    /\ UNCHANGED <<app_modifiers, sections, pressed>>
    /\ UNCHANGED <<current_view, locked_view, loaded_views>>
    /\ UNCHANGED <<mainvars, fmtvars>>

----------------------------------------------------------------------------
(* The state machine. *)
Store(p) ==
    /\ group' = p.group
    /\ level' = p.level
    /\ modifiers' = p.modifiers
    /\ modifier_behavior' = p.modifier_behavior
    /\ emitted' = p.emitted

(* eek_keyboard_init *)
Init ==
    /\ group = 0
    /\ level = 0
    /\ modifier_behavior = EEK_MODIFIER_BEHAVIOR_NONE
    /\ modifiers = {}
    /\ emitted = <<>>
    /\ last = [op |-> "init", key |-> "", args |-> <<>>, symbol |-> NULL,
               group |-> 0, level |-> 0, modifiers |-> {}]
    /\ script = [on |-> TRUE, events |-> <<>>, symbols |-> <<>>]
    /\ lockSeq = NoLockSeq
    /\ latchSeq = NoLatchSeq
    /\ app_modifiers = {}
    /\ sections = <<>>
    /\ pressed = {}
    /\ alast = NoKeystroke
    /\ current_view = "base"
    /\ locked_view = {}
    /\ loaded_views = {"base"}
    /\ vlast = NoButtonEvent
    /\ MainNotStarted
    /\ FmtNotStarted

(* A section reports a pressed key: the keyboard emits key-pressed, whose   *)
(* class handler is eek_keyboard_real_key_pressed.                          *)
KeyPressed(key) ==
    /\ Store(eek_keyboard_real_key_pressed(Priv, key))
    /\ Observe("press", key, <<>>, Resolved(key))

KeyReleased(key) ==
    /\ Store(eek_keyboard_real_key_released(Priv, key))
    /\ Observe("release", key, <<>>, Resolved(key))

SetSymbolIndex(g, l) ==
    /\ Store(eek_keyboard_set_symbol_index(Priv, g, l))
    /\ Observe("set_symbol_index", "", <<g, l>>, NULL)

SetGroup(g) ==
    /\ Store(eek_keyboard_set_group(Priv, g))
    /\ Observe("set_group", "", <<g>>, NULL)

SetLevel(l) ==
    /\ Store(eek_keyboard_set_level(Priv, l))
    /\ Observe("set_level", "", <<l>>, NULL)

SetModifierBehavior(b) ==
    /\ Store(eek_keyboard_set_modifier_behavior(Priv, b))
    /\ Observe("set_modifier_behavior", b, <<>>, NULL)

Next ==
    \/ \E key \in KeyNames : KeyPressed(key)
    \/ \E key \in KeyNames : KeyReleased(key)
    \/ \E g \in Groups, l \in Levels : SetSymbolIndex(g, l)
    \/ \E g \in Groups : SetGroup(g)
    \/ \E l \in Levels : SetLevel(l)
    \/ \E b \in Behaviors : SetModifierBehavior(b)

Spec == Init /\ [][Next]_vars

----------------------------------------------------------------------------
(* The application (eekboard.c): the keystroke listener finds the key of a *)
(* keycode among the keyboard's sections and emits its pressed / released  *)
(* signal; the handlers connected to the keyboard's key-pressed and        *)
(* key-released signals keep eekboard->modifiers and forward ordinary keys *)
(* to the transport; a changed layout replaces the keyboard.               *)

(* X11 modifier masks of eekboard->modifiers, as sets of bits. *)
ShiftMask   == {"ShiftMask"}
ControlMask == {"ControlMask"}
Mod1Mask    == {"Mod1Mask"}

SPI_KEY_PRESSED  == "SPI_KEY_PRESSED"
SPI_KEY_RELEASED == "SPI_KEY_RELEASED"
StrokeTypes == {SPI_KEY_PRESSED, SPI_KEY_RELEASED}

(* The keycodes a keystroke can carry; the layouts use 1..3. *)
MaxKeycode == 4
Keycodes == 1..MaxKeycode

NoKey == ""
Key(keycode, name) == [keycode |-> keycode, name |-> name]

(* The section lists the layouts build.  A keycode can occur in more than  *)
(* one section.                                                            *)
LayoutA ==
    << <<Key(1, "q"), Key(2, "a")>>,
       <<Key(3, "Shift_L"), Key(2, "Control_L")>> >>
LayoutB ==
    << <<Key(3, "Shift_L")>>,
       <<Key(1, "Control_L"), Key(2, "a")>>,
       <<Key(1, "q"), Key(3, "Shift_R")>> >>
LayoutC ==
    << <<Key(1, "q"), Key(2, "Shift_R")>>,
       <<Key(3, "ISO_Level3_Shift")>> >>
AppLayouts == {LayoutA, LayoutB, LayoutC}

Min(S) == CHOOSE x \in S : \A y \in S : x <= y

(* eek_section_find_key_by_keycode: the first key of the section that has  *)
(* the keycode, or NULL.                                                   *)
eek_section_find_key_by_keycode(section, keycode) ==
    LET hits == {i \in 1..Len(section) : section[i].keycode = keycode}
    IN  IF hits = {} THEN NoKey ELSE section[Min(hits)].name

(* data->key is assigned for every section visited; 0 stops the search. *)
find_key_by_keycode_section_callback_AcceptAny(element, keycode) ==
    [key |-> eek_section_find_key_by_keycode(element, keycode), ret |-> 0]

find_key_by_keycode_section_callback(element, keycode) ==
    LET key == eek_section_find_key_by_keycode(element, keycode)
    IN  [key |-> key, ret |-> IF key # NoKey THEN 0 ELSE -1]

(* eek_container_find with the callback above: the position of the first   *)
(* child, in the order the children were added, for which the callback     *)
(* returns 0; 0 if there is none.                                          *)
eek_container_find(children, keycode) ==
    LET hits == {i \in 1..Len(children) :
                    find_key_by_keycode_section_callback(children[i], keycode).ret = 0}
    IN  IF hits = {} THEN 0 ELSE Min(hits)

eek_keyboard_real_find_key_by_keycode_FirstKey(children, keycode) ==
    LET i == eek_container_find(children, keycode)
    IN  IF i # 0
        THEN find_key_by_keycode_section_callback(children[i], keycode).key
        ELSE IF children # <<>> /\ children[1] # <<>>
             THEN children[1][1].name ELSE NoKey

eek_keyboard_real_find_key_by_keycode(children, keycode) ==
    LET i == eek_container_find(children, keycode)
    IN  IF i # 0
        THEN find_key_by_keycode_section_callback(children[i], keycode).key
        ELSE NoKey

eek_keyboard_find_key_by_keycode(children, keycode) ==
    eek_keyboard_real_find_key_by_keycode(children, keycode)

(* squeek_key_set_pressed / squeek_key_is_pressed on the set of keys whose *)
(* flag is set.                                                            *)
squeek_key_set_pressed(flags, key, value) ==
    IF value THEN flags \cup {key} ELSE flags \ {key}

squeek_key_is_pressed(flags, key) == key \in flags

(* The signal the listener emits on the key. *)
StrokeSignal_AlwaysPressed(type) == "pressed"

StrokeSignal(type) ==
    IF type = SPI_KEY_PRESSED THEN "pressed" ELSE "released"

(* eek_key_get_keysym: the keysym of the key at the keyboard's current     *)
(* index.                                                                  *)
eek_key_get_keysym(p, key) ==
    eek_key_get_symbol_at_index(key, p.group, p.level).keysym

(* eek_keyboard_init: the private fields of a keyboard just created. *)
eek_keyboard_init_KeepState == Priv

eek_keyboard_init ==
    [group |-> 0, level |-> 0, modifiers |-> {},
     modifier_behavior |-> EEK_MODIFIER_BEHAVIOR_NONE, emitted |-> <<>>]

(* The application state the connected handlers work on. *)
App(p) == [kbd |-> p, modifiers |-> app_modifiers, forwarded |-> <<>>]

(* Variant: the modifiers are dropped once an ordinary key is forwarded. *)
on_key_pressed_Unlatch(a, key) ==
    LET keysym == eek_key_get_keysym(a.kbd, key)
    IN  IF keysym \in {"Shift_L", "Shift_R", "Control_L", "Control_R",
                       "Alt_L", "Alt_R"}
        THEN [a EXCEPT !.modifiers =
                 BitXor(@, IF keysym \in {"Shift_L", "Shift_R"} THEN ShiftMask
                           ELSE IF keysym \in {"Control_L", "Control_R"}
                           THEN ControlMask ELSE Mod1Mask)]
        ELSE [a EXCEPT !.forwarded =
                 Append(@, [call |-> "fakekey_press_keysym", keysym |-> keysym,
                            modifiers |-> a.modifiers]),
                       !.modifiers = {}]

on_key_pressed(a, key) ==
    LET keysym == eek_key_get_keysym(a.kbd, key)
    IN  IF keysym \in {"Shift_L", "Shift_R"}
        THEN LET m == BitXor(a.modifiers, ShiftMask)
             IN  [a EXCEPT !.modifiers = m,
                           !.kbd = eek_keyboard_set_symbol_index(
                                       a.kbd, eek_keyboard_get_group(a.kbd),
                                       IF m \cap ShiftMask # {} THEN 1 ELSE 0)]
        ELSE IF keysym \in {"Control_L", "Control_R"}
        THEN [a EXCEPT !.modifiers = BitXor(@, ControlMask)]
        ELSE IF keysym \in {"Alt_L", "Alt_R"}
        THEN [a EXCEPT !.modifiers = BitXor(@, Mod1Mask)]
        ELSE [a EXCEPT !.forwarded =
                 Append(@, [call |-> "fakekey_press_keysym", keysym |-> keysym,
                            modifiers |-> a.modifiers])]

on_key_released(a, key) ==
    [a EXCEPT !.forwarded =
        Append(@, [call |-> "fakekey_release", keysym |-> "",
                   modifiers |-> {}])]

(* The keyboard's key-pressed and key-released signals are RUN_LAST: the   *)
(* connected handler runs, then the class handler.                         *)
EmitKeyPressed_ClassFirst(a, key) ==
    on_key_pressed([a EXCEPT !.kbd = eek_keyboard_real_key_pressed(a.kbd, key)],
                   key)

EmitKeyPressed(a, key) ==
    LET a1 == on_key_pressed(a, key)
    IN  [a1 EXCEPT !.kbd = eek_keyboard_real_key_pressed(a1.kbd, key)]

EmitKeyReleased(a, key) ==
    LET a1 == on_key_released(a, key)
    IN  [a1 EXCEPT !.kbd = eek_keyboard_real_key_released(a1.kbd, key)]

StoreApp(a) ==
    /\ Store(a.kbd)
    /\ app_modifiers' = a.modifiers

(* The keys of the current keyboard whose latest keystroke is a press. *)
Unreleased(name, type, key) ==
    IF name = "changed" THEN {}
    ELSE IF key = NoKey THEN alast.unreleased
    ELSE IF type = SPI_KEY_PRESSED THEN alast.unreleased \cup {key}
    ELSE alast.unreleased \ {key}

ObserveApp(name, keycode, type, key, handled, forwarded) ==
    /\ last' = Op(name, key, <<>>, NULL)
    /\ alast' = [keycode |-> keycode, type |-> type, key |-> key,
                 handled |-> handled, app_modifiers |-> app_modifiers,
                 pressed |-> pressed, forwarded |-> forwarded,
                 unreleased |-> Unreleased(name, type, key),
                 reloaded |-> alast.reloaded \/ name = "changed"]
    /\ UNCHANGED <<script, lockSeq, latchSeq>>
    /\ UNCHANGED viewvars
    /\ UNCHANGED <<mainvars, fmtvars>>

(* eekboard_new and create_widget: the application structure is zeroed and *)
(* the keyboard is built from the layout.                                  *)
InitApp ==
    /\ group = 0
    /\ level = 0
    /\ modifier_behavior = EEK_MODIFIER_BEHAVIOR_NONE
    /\ modifiers = {}
    /\ emitted = <<>>
    /\ last = [op |-> "init", key |-> "", args |-> <<>>, symbol |-> NULL,
               group |-> 0, level |-> 0, modifiers |-> {}]
    /\ script = [on |-> TRUE, events |-> <<>>, symbols |-> <<>>]
    /\ lockSeq = NoLockSeq
    /\ latchSeq = NoLatchSeq
    /\ app_modifiers = {}
    /\ sections \in AppLayouts
    /\ pressed = {}
    /\ alast = NoKeystroke
    /\ current_view = "base"
    /\ locked_view = {}
    /\ loaded_views = {"base"}
    /\ vlast = NoButtonEvent
    /\ MainInLoop
    /\ FmtNotStarted

(* a11y_keystroke_listener *)
a11y_keystroke_listener(keycode, type) ==
    LET key == eek_keyboard_find_key_by_keycode(sections, keycode)
    IN  IF key = NoKey
        THEN /\ StoreApp(App(Priv))
             /\ UNCHANGED <<sections, pressed>>
             /\ ObserveApp("keystroke", keycode, type, NoKey, FALSE, <<>>)
        ELSE LET a == IF StrokeSignal(type) = "pressed"
                      THEN EmitKeyPressed(App(Priv), key)
                      ELSE EmitKeyReleased(App(Priv), key)
             IN  /\ StoreApp(a)
                 /\ pressed' = squeek_key_set_pressed(
                                   pressed, key, StrokeSignal(type) = "pressed")
                 /\ UNCHANGED sections
                 /\ ObserveApp("keystroke", keycode, type, key, TRUE, a.forwarded)

(* on_changed: the keyboard is dropped and create_widget builds a new one  *)
(* from the layout; eekboard->modifiers is not assigned.                   *)
on_changed ==
    /\ Store(eek_keyboard_init)
    /\ sections' \in AppLayouts
    /\ pressed' = {}
    /\ UNCHANGED app_modifiers
    /\ ObserveApp("changed", 0, "", NoKey, FALSE, <<>>)

NextApp ==
    \/ \E keycode \in Keycodes, type \in StrokeTypes :
          a11y_keystroke_listener(keycode, type)
    \/ on_changed

SpecApp == InitApp /\ [][NextApp]_vars

-----------------------------------------------------------------------------
(* Keys held down and let go on a new keyboard (behaviour None): a key that *)
(* is up is pressed, a key that is down is released, and the keyboard's     *)
(* class handlers run on each signal.                                       *)
KeyDown(key) ==
    /\ ~squeek_key_is_pressed(pressed, key)
    /\ Store(eek_keyboard_real_key_pressed(Priv, key))
    /\ pressed' = squeek_key_set_pressed(pressed, key, TRUE)
    /\ last' = Op("press", key, <<>>, Resolved(key))
    /\ UNCHANGED <<script, lockSeq, latchSeq, app_modifiers, sections, alast>>
    /\ UNCHANGED viewvars
    /\ UNCHANGED <<mainvars, fmtvars>>

KeyUp(key) ==
    /\ squeek_key_is_pressed(pressed, key)
    /\ Store(eek_keyboard_real_key_released(Priv, key))
    /\ pressed' = squeek_key_set_pressed(pressed, key, FALSE)
    /\ last' = Op("release", key, <<>>, Resolved(key))
    /\ UNCHANGED <<script, lockSeq, latchSeq, app_modifiers, sections, alast>>
    /\ UNCHANGED viewvars
    /\ UNCHANGED <<mainvars, fmtvars>>

NextKeys ==
    \/ \E key \in KeyNames : KeyDown(key)
    \/ \E key \in KeyNames : KeyUp(key)

SpecKeys == Init /\ [][NextKeys]_vars

-----------------------------------------------------------------------------
(* The start of the application (eekboard.c): main calls eekboard_new and   *)
(* goes on with the pointer it returns.                                     *)

(* The option values main distinguishes after eekboard_new. *)
ListOptions == {"", "models", "layouts", "options"}

(* eekboard_new: the structure is allocated; if the display, fakekey or the *)
(* layout cannot be had it is freed and NULL is returned.                   *)
eekboard_new(e) ==
    IF ~e.display THEN [eekboard |-> "NULL", heap |-> "freed"]
    ELSE IF ~e.fakekey THEN [eekboard |-> "NULL", heap |-> "freed"]
    ELSE IF ~e.layout THEN [eekboard |-> "NULL", heap |-> "freed"]
    ELSE [eekboard |-> "valid", heap |-> "live"]

(* Where main is after a statement that reads through eekboard: reading    *)
(* through NULL is undefined, the process is killed or goes on.            *)
AfterDeref(next) ==
    IF eekboard = "NULL" THEN {"crashed", next} ELSE {next}

InitMain ==
    /\ group = 0
    /\ level = 0
    /\ modifier_behavior = EEK_MODIFIER_BEHAVIOR_NONE
    /\ modifiers = {}
    /\ emitted = <<>>
    /\ last = [op |-> "init", key |-> "", args |-> <<>>, symbol |-> NULL,
               group |-> 0, level |-> 0, modifiers |-> {}]
    /\ script = [on |-> TRUE, events |-> <<>>, symbols |-> <<>>]
    /\ lockSeq = NoLockSeq
    /\ latchSeq = NoLatchSeq
    /\ app_modifiers = {}
    /\ sections = <<>>
    /\ pressed = {}
    /\ alast = NoKeystroke
    /\ current_view = "base"
    /\ locked_view = {}
    /\ loaded_views = {"base"}
    /\ vlast = NoButtonEvent
    /\ main_pc = "eekboard_new"
    /\ eekboard = "unset"
    /\ heap = "none"
    /\ used = {}
    /\ env \in [display : BOOLEAN, fakekey : BOOLEAN, layout : BOOLEAN]
    /\ opts \in [list : ListOptions]
    /\ FmtNotStarted

MainFrame ==
    /\ UNCHANGED <<group, level, modifiers, modifier_behavior, last, emitted,
                   script, lockSeq, latchSeq>>
    /\ UNCHANGED <<appvars, viewvars, fmtvars, env, opts>>

(* eekboard = eekboard_new (...) *)
main_eekboard_new ==
    /\ main_pc = "eekboard_new"
    /\ eekboard' = eekboard_new(env).eekboard
    /\ heap' = eekboard_new(env).heap
    /\ main_pc' = "options"
    /\ UNCHANGED used
    /\ MainFrame

(* if (opt_list_models) ... if (opt_list_layouts) ... if (opt_list_options): *)
(* the registry is read through eekboard, then eekboard_free and exit (0).  *)
main_list ==
    /\ main_pc = "options"
    /\ opts.list # ""
    /\ used' = used \cup {"registry"}
    /\ main_pc' \in AfterDeref("exited")
    /\ heap' = IF eekboard = "valid" THEN "freed" ELSE heap
    /\ UNCHANGED eekboard
    /\ MainFrame

(* widget = create_widget (eekboard, CSW, CSH) *)
main_create_widget ==
    /\ main_pc = "options"
    /\ opts.list = ""
    /\ used' = used \cup {"create_widget"}
    /\ main_pc' \in AfterDeref("widget")
    /\ UNCHANGED <<eekboard, heap>>
    /\ MainFrame

(* create_menus, the window and its fields, then gtk_main (). *)
main_gtk_main ==
    /\ main_pc = "widget"
    /\ used' = used \cup {"gtk_main"}
    /\ main_pc' \in AfterDeref("gtk_main")
    /\ UNCHANGED <<eekboard, heap>>
    /\ MainFrame

NextMain ==
    \/ main_eekboard_new
    \/ main_list
    \/ main_create_widget
    \/ main_gtk_main

SpecMain == InitMain /\ [][NextMain]_vars

-----------------------------------------------------------------------------
(* The yamlfmt tool (tools/yamlfmt).  A file is a sequence of lines of one  *)
(* YAML sequence, "- item"; a line has the column of its dash, the number   *)
(* of spaces between the dash and the item, the item, and its line ending.  *)

(* The longest file checked. *)
MaxLines == 2

(* yaml.indent(offset=2, sequence=4) *)
IndentOffset == 2
IndentSequence == 4

Indents == {0, IndentOffset}
Gaps == {IndentSequence - IndentOffset - 1, IndentSequence - IndentOffset}
Items == {"a", "b"}
LineEndings == {"LF", "CRLF"}

Lines == [indent : Indents, gap : Gaps, item : Items, eol : LineEndings]
Files == UNION {[1..n -> Lines] : n \in 1..MaxLines}

(* open(path).read(): text mode reads every line ending as "\n". *)
read(bytes) == [i \in 1..Len(bytes) |-> [bytes[i] EXCEPT !.eol = "LF"]]

(* yaml.load: the items, if the dashes are in one column; an error if not. *)
ParseError == <<"error">>

load(contents) ==
    IF \A i, j \in 1..Len(contents) : contents[i].indent = contents[j].indent
    THEN [i \in 1..Len(contents) |-> contents[i].item]
    ELSE ParseError

(* dump: every item on a line of its own, the dash at the offset and the   *)
(* item at the sequence indent.                                            *)
dump(yml) ==
    [i \in 1..Len(yml) |->
        [indent |-> IndentOffset, gap |-> IndentSequence - IndentOffset - 1,
         item |-> yml[i], eol |-> "LF"]]

(* Whether the file is opened for writing. *)
Rewrites_WheneverApply(well_formatted, apply) == apply

Rewrites(well_formatted, apply) == ~well_formatted /\ apply

(* sys.exit(1) without --apply on a badly formatted file; the end of the   *)
(* script otherwise.                                                       *)
ExitStatus(well_formatted, apply) ==
    IF ~well_formatted /\ ~apply THEN 1 ELSE 0

InitFmt ==
    /\ group = 0
    /\ level = 0
    /\ modifier_behavior = EEK_MODIFIER_BEHAVIOR_NONE
    /\ modifiers = {}
    /\ emitted = <<>>
    /\ last = [op |-> "init", key |-> "", args |-> <<>>, symbol |-> NULL,
               group |-> 0, level |-> 0, modifiers |-> {}]
    /\ script = [on |-> TRUE, events |-> <<>>, symbols |-> <<>>]
    /\ lockSeq = NoLockSeq
    /\ latchSeq = NoLatchSeq
    /\ app_modifiers = {}
    /\ sections = <<>>
    /\ pressed = {}
    /\ alast = NoKeystroke
    /\ current_view = "base"
    /\ locked_view = {}
    /\ loaded_views = {"base"}
    /\ vlast = NoButtonEvent
    /\ MainNotStarted
    /\ file \in Files
    /\ want_apply \in BOOLEAN
    /\ fmt_pc = "start"
    /\ exit_status = 0
    /\ written = <<>>
    /\ given = file

(* One run of the script. *)
yamlfmt ==
    /\ fmt_pc = "start"
    /\ LET contents == read(file)
           yml == load(contents)
       IN  IF yml = ParseError
           THEN \* the exception ends the script
                /\ exit_status' = 1
                /\ UNCHANGED <<file, written>>
           ELSE LET formatted == dump(yml)
                    well_formatted == formatted = contents
                IN  /\ IF Rewrites(well_formatted, want_apply)
                       THEN /\ file' = formatted
                            /\ written' = Append(written, formatted)
                       ELSE UNCHANGED <<file, written>>
                    /\ exit_status' = ExitStatus(well_formatted, want_apply)
    /\ fmt_pc' = "exited"
    /\ UNCHANGED <<want_apply, given>>
    /\ UNCHANGED <<group, level, modifiers, modifier_behavior, last, emitted,
                   script, lockSeq, latchSeq>>
    /\ UNCHANGED <<appvars, viewvars, mainvars>>

NextFmt == yamlfmt

SpecFmt == InitFmt /\ [][NextFmt]_vars

----------------------------------------------------------------------------
(* The views of a layout (gr+polytonic.yaml) and the actions of its        *)
(* buttons: a button press is interpreted into a transition, which is      *)
(* applied to the state as a whole or dropped.                             *)

(* Variant: the views map without "numbers". *)
Views_WithoutNumbers ==
    {"base", "upper", "accents",
     "oxia", "Oxia", "bariaorperispomeni",
     "BariaOrPerispomeni", "psiliordasia", "PsiliOrDasia",
     "psiliordasiaandoxia", "PsiliOrDasiaAndOxia", "psiliordasiaandvaria",
     "PsiliOrDasiaAndVaria", "psiliordasiaandperispomeni",
     "PsiliOrDasiaAndPerispomeni",
     "symbols"}

(* views: *)
Views ==
    {"base", "upper", "accents",
     "oxia", "Oxia", "bariaorperispomeni",
     "BariaOrPerispomeni", "psiliordasia", "PsiliOrDasia",
     "psiliordasiaandoxia", "PsiliOrDasiaAndOxia", "psiliordasiaandvaria",
     "PsiliOrDasiaAndVaria", "psiliordasiaandperispomeni",
     "PsiliOrDasiaAndPerispomeni",
     "numbers", "symbols"}


(* Button actions. *)
SetView(target) ==
    [type |-> "SetView", view |-> target, unlock_view |-> ""]
Locking(lock_view, unlock_view) ==
    [type |-> "Locking", view |-> lock_view, unlock_view |-> unlock_view]
Erase == [type |-> "Erase", view |-> "", unlock_view |-> ""]
ShowPreferences == [type |-> "ShowPreferences", view |-> "", unlock_view |-> ""]
NoAction == [type |-> "None", view |-> "", unlock_view |-> ""]

(* The buttons of a view that carry an action, and "space" for the buttons *)
(* that carry none.                                                        *)
ViewButtons(view) ==
    {"space"} \cup
    CASE view = "base" ->
           {"show_accents", "Shift_L", "BackSpace", "show_numbers",
            "preferences"}
      [] view = "upper" ->
           {"show_accents", "Shift_L", "BackSpace", "show_numbers",
            "preferences"}
      [] view = "accents" ->
           {"show_psiliordasiaandvaria", "show_psiliordasiaandoxia",
            "show_psiliordasia", "show_bariaorperispomeni", "show_oxia",
            "show_PsiliOrDasiaAndVaria", "show_PsiliOrDasiaAndOxia",
            "show_PsiliOrDasia", "show_BariaOrPerispomeni", "show_Oxia",
            "show_base", "show_PsiliOrDasiaAndPerispomeni",
            "show_psiliordasiaandperispomeni", "BackSpace",
            "show_numbers", "preferences"}
      [] view = "oxia" ->
           {"show_Oxia", "show_base", "BackSpace", "show_numbers",
            "preferences"}
      [] view = "Oxia" ->
           {"show_oxia", "show_base", "BackSpace", "show_numbers",
            "preferences"}
      [] view = "bariaorperispomeni" ->
           {"show_BariaOrPerispomeni", "show_base", "BackSpace",
            "show_numbers", "preferences"}
      [] view = "BariaOrPerispomeni" ->
           {"show_bariaorperispomeni", "show_base", "show_numbers",
            "preferences", "BackSpace"}
      [] view = "psiliordasia" ->
           {"show_PsiliOrDasia", "show_base", "BackSpace",
            "show_numbers", "preferences"}
      [] view = "PsiliOrDasia" ->
           {"show_psiliordasia", "show_base", "BackSpace",
            "show_numbers", "preferences"}
      [] view = "psiliordasiaandoxia" ->
           {"show_PsiliOrDasiaAndOxia", "show_base", "BackSpace",
            "show_numbers", "preferences"}
      [] view = "PsiliOrDasiaAndOxia" ->
           {"show_psiliordasiaandoxia", "show_base", "BackSpace",
            "show_numbers", "preferences"}
      [] view = "psiliordasiaandvaria" ->
           {"show_PsiliOrDasiaAndVaria", "show_base", "BackSpace",
            "show_numbers", "preferences"}
      [] view = "PsiliOrDasiaAndVaria" ->
           {"show_psiliordasiaandvaria", "show_base", "BackSpace",
            "show_numbers", "preferences"}
      [] view = "psiliordasiaandperispomeni" ->
           {"show_PsiliOrDasiaAndPerispomeni", "show_base", "BackSpace",
            "show_numbers", "preferences"}
      [] view = "PsiliOrDasiaAndPerispomeni" ->
           {"show_psiliordasiaandperispomeni", "show_base", "BackSpace",
            "show_numbers", "preferences"}
      [] view = "numbers" ->
           {"show_symbols", "BackSpace", "show_letters", "preferences"}
      [] view = "symbols" ->
           {"show_numbers", "BackSpace", "show_letters", "preferences"}
      [] OTHER -> {}

(* buttons: *)
ButtonAction(button) ==
    CASE button = "Shift_L" -> Locking("upper", "base")
      [] button = "BackSpace" -> Erase
      [] button = "preferences" -> ShowPreferences
      [] button = "show_oxia" -> SetView("oxia")
      [] button = "show_Oxia" -> SetView("Oxia")
      [] button = "show_bariaorperispomeni" -> SetView("bariaorperispomeni")
      [] button = "show_BariaOrPerispomeni" -> SetView("BariaOrPerispomeni")
      [] button = "show_psiliordasia" -> SetView("psiliordasia")
      [] button = "show_PsiliOrDasia" -> SetView("PsiliOrDasia")
      [] button = "show_psiliordasiaandoxia" -> SetView("psiliordasiaandoxia")
      [] button = "show_PsiliOrDasiaAndOxia" -> SetView("PsiliOrDasiaAndOxia")
      [] button = "show_psiliordasiaandvaria" -> SetView("psiliordasiaandvaria")
      [] button = "show_PsiliOrDasiaAndVaria" -> SetView("PsiliOrDasiaAndVaria")
      [] button = "show_psiliordasiaandperispomeni" -> SetView("psiliordasiaandperispomeni")
      [] button = "show_PsiliOrDasiaAndPerispomeni" -> SetView("PsiliOrDasiaAndPerispomeni")
      [] button = "show_numbers" -> SetView("numbers")
      [] button = "show_letters" -> SetView("base")
      [] button = "show_symbols" -> SetView("symbols")
      [] button = "show_accents" -> Locking("accents", "base")
      [] button = "show_base" -> SetView("base")
      [] OTHER -> NoAction

Buttons == UNION {ViewButtons(view) : view \in Views}


(* The layouts loaded: the file as it is, and the file less two views that *)
(* its buttons still name.                                                 *)
LoadedLayouts == {Views, Views \ {"upper", "symbols"}}

(* The state a transition is applied to, and what applying it signals. *)
State ==
    [current_view |-> current_view, locked_view |-> locked_view,
     group |-> group, level |-> level, modifiers |-> modifiers,
     effect |-> ""]

(* interpret: the transition of a pressed button's action. *)
interpret(action) ==
    CASE action.type = "SetView" ->
           [type |-> "SetView", view |-> action.view, unlock_view |-> ""]
      [] action.type = "Locking" ->
           [type |-> "ToggleLock", view |-> action.view,
            unlock_view |-> action.unlock_view]
      [] action.type = "Erase" ->
           [type |-> "Erase", view |-> "", unlock_view |-> ""]
      [] action.type = "ShowPreferences" ->
           [type |-> "ShowPreferences", view |-> "", unlock_view |-> ""]
      [] OTHER ->
           [type |-> "Emit", view |-> "", unlock_view |-> ""]

(* The views a transition refers to. *)
Referenced(t) ==
    CASE t.type = "SetView" -> {t.view}
      [] t.type = "ToggleLock" -> {t.view, t.unlock_view}
      [] OTHER -> {}

(* SetView: the current view becomes the target. *)
ApplySetView_ResetLevel(s, t) ==
    [s EXCEPT !.current_view = t.view, !.level = 0]

ApplySetView(s, t) == [s EXCEPT !.current_view = t.view]

(* ToggleLock: away from lock_view, switch to it and mark it locked; in    *)
(* lock_view and locked, switch to unlock_view and clear the lock.         *)
ApplyToggleLock_KeepLock(s, t) ==
    IF s.current_view # t.view
    THEN [s EXCEPT !.current_view = t.view,
                   !.locked_view = @ \cup {t.view}]
    ELSE IF t.view \in s.locked_view
    THEN [s EXCEPT !.current_view = t.unlock_view]
    ELSE s

ApplyToggleLock(s, t) ==
    IF s.current_view # t.view
    THEN [s EXCEPT !.current_view = t.view, !.locked_view = {t.view}]
    ELSE IF t.view \in s.locked_view
    THEN [s EXCEPT !.current_view = t.unlock_view, !.locked_view = {}]
    ELSE s

(* Terminal effects and emitted symbols signal the transport only. *)
ApplyEffect_Unlatch(s, t) ==
    [s EXCEPT !.effect = t.type,
              !.current_view = IF s.locked_view = {} THEN "base" ELSE @]

ApplyEffect(s, t) == [s EXCEPT !.effect = t.type]

(* A transition that refers to a view the layout does not have is dropped. *)
Resolves_Always(t, loaded) == TRUE

Resolves(t, loaded) == Referenced(t) \subseteq loaded

apply(s, t, loaded) ==
    IF ~Resolves(t, loaded) THEN s
    ELSE CASE t.type = "SetView" -> ApplySetView(s, t)
           [] t.type = "ToggleLock" -> ApplyToggleLock(s, t)
           [] OTHER -> ApplyEffect(s, t)

ViewChanging(button) == ButtonAction(button).type \in {"SetView", "Locking"}

(* The run of consecutive presses of one Locking button that started in    *)
(* its unlock_view: 1 after an odd number of presses, 2 after an even one. *)
RunStep(button) ==
    LET action == ButtonAction(button)
    IN  IF action.type # "Locking" THEN [run |-> 0, start |-> "", startLocked |-> {}]
        ELSE IF vlast.run # 0 /\ vlast.button = button
        THEN [run |-> 3 - vlast.run, start |-> vlast.start,
              startLocked |-> vlast.startLocked]
        ELSE IF current_view = action.unlock_view
        THEN [run |-> 1, start |-> current_view, startLocked |-> locked_view]
        ELSE [run |-> 0, start |-> "", startLocked |-> {}]

(* The view a SetView press switched to, while no view-changing button has *)
(* been pressed since.                                                     *)
ShownStep(button, t) ==
    IF t.type = "SetView"
    THEN IF t.view \in loaded_views THEN t.view ELSE ""
    ELSE IF ViewChanging(button) THEN "" ELSE vlast.shown

StoreView(s) ==
    /\ current_view' = s.current_view
    /\ locked_view' = s.locked_view
    /\ group' = s.group
    /\ level' = s.level
    /\ modifiers' = s.modifiers
    /\ emitted' = <<>>
    /\ UNCHANGED <<modifier_behavior, loaded_views>>

ObserveView(button, event, notified, effect, run, shown) ==
    /\ last' = Op("button", button, <<>>, NULL)
    /\ vlast' = [button |-> button, event |-> event, view |-> current_view,
                 locked |-> locked_view, notified |-> notified,
                 effect |-> effect, run |-> run.run, start |-> run.start,
                 startLocked |-> run.startLocked, shown |-> shown]
    /\ UNCHANGED <<script, lockSeq, latchSeq>>
    /\ UNCHANGED appvars
    /\ UNCHANGED <<mainvars, fmtvars>>

(* The state machine starts in the layout's default view with no lock. *)
InitView ==
    /\ group = 0
    /\ level = 0
    /\ modifier_behavior = EEK_MODIFIER_BEHAVIOR_NONE
    /\ modifiers = {}
    /\ emitted = <<>>
    /\ last = [op |-> "init", key |-> "", args |-> <<>>, symbol |-> NULL,
               group |-> 0, level |-> 0, modifiers |-> {}]
    /\ script = [on |-> TRUE, events |-> <<>>, symbols |-> <<>>]
    /\ lockSeq = NoLockSeq
    /\ latchSeq = NoLatchSeq
    /\ app_modifiers = {}
    /\ sections = <<>>
    /\ pressed = {}
    /\ alast = NoKeystroke
    /\ current_view = "base"
    /\ locked_view = {}
    /\ loaded_views \in LoadedLayouts
    /\ vlast = NoButtonEvent
    /\ MainNotStarted
    /\ FmtNotStarted

(* A button of the current view is pressed: its action is interpreted and  *)
(* the transition applied; a notification follows if the view changed.     *)
ButtonPressed(button) ==
    LET t == interpret(ButtonAction(button))
        s == apply(State, t, loaded_views)
    IN  /\ StoreView(s)
        /\ ObserveView(button, "press", s.current_view # current_view,
                       s.effect, RunStep(button), ShownStep(button, t))

(* A button is released: no transition. *)
ButtonReleased(button) ==
    /\ StoreView(State)
    /\ ObserveView(button, "release", FALSE, "",
                   IF vlast.button = button
                   THEN [run |-> vlast.run, start |-> vlast.start,
                         startLocked |-> vlast.startLocked]
                   ELSE [run |-> 0, start |-> "", startLocked |-> {}],
                   vlast.shown)

(* The keys that carry a modifier. *)
ModifierKeys == {"Shift_L", "ISO_Level3_Shift"}

NextView ==
    \/ \E button \in ViewButtons(current_view) : ButtonPressed(button)
    \/ \E button \in Buttons : ButtonReleased(button)
    \/ \E key \in ModifierKeys : KeyPressed(key)
    \/ \E key \in ModifierKeys : KeyReleased(key)

SpecView == InitView /\ [][NextView]_vars

----------------------------------------------------------------------------
(* Properties. *)

KeyEvent == last.op \in {"press", "release"}

LastMask == eek_symbol_get_modifier_mask(last.symbol)

Synced == level = LevelFromModifiers(modifiers)

WasSynced == last.level = LevelFromModifiers(last.modifiers)

(* C1 as stated: in every reachable state level is the value the modifier   *)
(* mask implies, (MOD5 ? 2 : 0) + (SHIFT ? 1 : 0).                          *)
C1_LevelAlwaysFromMask == Synced

(* C1 amended: level is the value the mask implies after every press or     *)
(* release that resolved a symbol, and an operation other than set_level,   *)
(* set_symbol_index and a press under Latch that finds no symbol keeps      *)
(* level equal to that value if it was before.                              *)
C1_LevelFromMaskAfterResolve ==
    /\ KeyEvent /\ last.symbol # NULL => Synced
    /\ /\ WasSynced
       /\ \/ last.op \in {"set_group", "set_modifier_behavior"}
          \/ last.op = "release" /\ last.symbol = NULL
          \/ /\ last.op = "press" /\ last.symbol = NULL
             /\ modifier_behavior # EEK_MODIFIER_BEHAVIOR_LATCH
       => Synced

(* A key event found level out of step with the mask and put it right.      *)
C1_Witness ==
    /\ KeyEvent /\ last.symbol # NULL
    /\ ~WasSynced
    /\ level = 3 /\ Synced


(* C2 as stated: a press of a key that has no symbol at the current (group, *)
(* level) emits nothing and leaves group, level and the modifier mask as    *)
(* they were, under every behaviour and every prior mask.                   *)
C2_MissLeavesStateUnchanged ==
    last.op = "press" /\ last.symbol = NULL =>
        /\ emitted = <<>>
        /\ group = last.group
        /\ level = last.level
        /\ modifiers = last.modifiers

C5_ReleaseMask ==
    last.op = "release" =>
        /\ LastMask # {} /\ modifier_behavior = EEK_MODIFIER_BEHAVIOR_NONE =>
               modifiers = last.modifiers \ LastMask
        /\ modifier_behavior \in {EEK_MODIFIER_BEHAVIOR_LATCH, EEK_MODIFIER_BEHAVIOR_LOCK} =>
               modifiers = last.modifiers

(* A release under None that cleared one of two set bits. *)
C5_Witness ==
    /\ last.op = "release" /\ modifier_behavior = EEK_MODIFIER_BEHAVIOR_NONE
    /\ LastMask # {} /\ LastMask \subseteq last.modifiers
    /\ modifiers # {} /\ modifiers # last.modifiers

(* C6: a press that resolves a symbol with modifier mask m # 0 gives        *)
(* mask | m under None, exactly m under Latch and mask ^ m under Lock; a    *)
(* press that resolves a symbol without modifier mask leaves the mask alone *)
(* under None and Lock.                                                     *)
C6_PressMask ==
    last.op = "press" /\ last.symbol # NULL =>
        /\ LastMask # {} =>
               modifiers = CASE modifier_behavior = EEK_MODIFIER_BEHAVIOR_NONE ->
                                    last.modifiers \cup LastMask
                             [] modifier_behavior = EEK_MODIFIER_BEHAVIOR_LATCH ->
                                    LastMask
                             [] modifier_behavior = EEK_MODIFIER_BEHAVIOR_LOCK ->
                                    BitXor(last.modifiers, LastMask)
        /\ LastMask = {} /\ modifier_behavior # EEK_MODIFIER_BEHAVIOR_LATCH =>
               modifiers = last.modifiers

(* A press under Lock that cleared one of two locked bits. *)
C6_Witness ==
    /\ last.op = "press" /\ modifier_behavior = EEK_MODIFIER_BEHAVIOR_LOCK
    /\ LastMask # {} /\ LastMask \subseteq last.modifiers
    /\ modifiers # {} /\ modifiers = last.modifiers \ LastMask

LevelBits == {EEK_SHIFT_MASK, EEK_MOD5_MASK}

(* C7: under Latch, with M1 of SHIFT, MOD5 latched, a press that resolves a *)
(* symbol carrying the other bit M2 leaves the mask exactly M2.             *)
C7_LatchDoesNotCompose ==
    /\ last.op = "press" /\ modifier_behavior = EEK_MODIFIER_BEHAVIOR_LATCH
    /\ last.modifiers \in LevelBits /\ LastMask \in LevelBits
    /\ LastMask # last.modifiers
    => modifiers = LastMask

(* SHIFT was latched and a key carrying MOD5 was pressed. *)
C7_Witness ==
    /\ last.op = "press" /\ modifier_behavior = EEK_MODIFIER_BEHAVIOR_LATCH
    /\ last.modifiers = EEK_SHIFT_MASK /\ LastMask = EEK_MOD5_MASK
    /\ modifiers = EEK_MOD5_MASK /\ level = 2

OnScript(t, n) == script.on /\ Len(script.events) = n /\ IsPrefix(script.events, t)

(* C8: on a new keyboard (behaviour None) a press of Shift gives mask       *)
(* {SHIFT} and level 1, a press of "a" then resolves its level-1 symbol,    *)
(* and the release of Shift gives an empty mask and level 0 and emits       *)
(* symbol-index-changed by itself.                                          *)
C8_NoneShiftScenario ==
    /\ OnScript(ScriptNone, 1) => modifiers = EEK_SHIFT_MASK /\ level = 1
    /\ OnScript(ScriptNone, 2) => last.symbol = symbol_matrix("a", 0, 1)
    /\ OnScript(ScriptNone, 3) =>
           /\ modifiers = {} /\ level = 0
           /\ Len(emitted) = 1
           /\ emitted[1].group = 0 /\ emitted[1].level = 0

(* The scenario ran to its end: Shift was released after "A" was resolved.  *)
C8_Witness ==
    /\ OnScript(ScriptNone, 3)
    /\ last.op = "release" /\ last.key = "Shift_L" /\ last.level = 1
    /\ script.symbols = <<symbol_matrix("a", 0, 1)>>

(* C9: under Lock, press Shift, press "a", press Shift, press "a", each     *)
(* followed by its release: mask {SHIFT} and level 1 after the first Shift  *)
(* press, empty mask and level 0 after the second, and the symbols resolved *)
(* for "a" are its level-1 symbol, then its level-0 symbol.                 *)
C9_LockShiftScenario ==
    /\ OnScript(ScriptLock, 2) => modifiers = EEK_SHIFT_MASK /\ level = 1
    /\ OnScript(ScriptLock, 6) => modifiers = {} /\ level = 0
    /\ OnScript(ScriptLock, 8) =>
           script.symbols = <<symbol_matrix("a", 0, 1), symbol_matrix("a", 0, 0)>>

(* The scenario ran to its end with two different symbols for "a". *)
C9_Witness ==
    /\ OnScript(ScriptLock, 8)
    /\ last.op = "press" /\ last.key = "a"
    /\ Len(script.symbols) = 2 /\ script.symbols[1] # script.symbols[2]

(* C10: a press or release emits symbol-index-changed once, with the new    *)
(* (group, level), if (group, level) differs from before the event, and not *)
(* at all if it does not.                                                   *)
C10_OneNotificationPerChange ==
    KeyEvent =>
        IF <<group, level>> # <<last.group, last.level>>
        THEN /\ Len(emitted) = 1
             /\ emitted[1].group = group /\ emitted[1].level = level
        ELSE emitted = <<>>

(* A release changed the level and notified it. *)
C10_Witness ==
    /\ last.op = "release" /\ level # last.level
    /\ Len(emitted) = 1 /\ emitted[1].level = level

(* C11: after a layout reload the modifier mask is empty in every store    *)
(* the program keeps, the new keyboard's mask and the application's        *)
(* eekboard->modifiers, and the level shown is the one the mask implies.    *)
C11_ReloadClearsModifiers ==
    last.op = "changed" =>
        /\ modifiers = {}
        /\ app_modifiers = {}
        /\ level = LevelFromModifiers(modifiers)

Keystroke == last.op = "keystroke"

(* The sections of the keyboard that hold a key with the keycode. *)
SectionsWith(keycode) ==
    {i \in 1..Len(sections) :
        \E j \in 1..Len(sections[i]) : sections[i][j].keycode = keycode}

(* C18: the lookup by keycode returns the key found in the first section,  *)
(* in insertion order, that contains the keycode, whatever later sections  *)
(* hold, and NULL if no section contains it.                               *)
C18_FirstSectionWins ==
    Keystroke =>
        LET S == SectionsWith(alast.keycode)
        IN  IF S = {}
            THEN alast.key = NoKey
            ELSE LET section == sections[Min(S)]
                 IN  \E j \in 1..Len(section) :
                        /\ section[j] = Key(alast.keycode, alast.key)
                        /\ \A i \in 1..(j - 1) :
                              section[i].keycode # alast.keycode

C18_Witness ==
    /\ Keystroke
    /\ Cardinality(SectionsWith(alast.keycode)) >= 2
    /\ Min(SectionsWith(alast.keycode)) > 1
    /\ alast.key # NoKey

(* C19: a keystroke whose keycode no key of the keyboard has changes       *)
(* nothing: no pressed flag, nothing forwarded, no notification, group,    *)
(* level and both modifier stores as before, and the listener returns      *)
(* FALSE.                                                                   *)
C19_UnknownKeycodeIsNoOp ==
    (Keystroke /\ SectionsWith(alast.keycode) = {}) =>
        /\ alast.handled = FALSE
        /\ alast.forwarded = <<>>
        /\ emitted = <<>>
        /\ pressed = alast.pressed
        /\ app_modifiers = alast.app_modifiers
        /\ group = last.group
        /\ level = last.level
        /\ modifiers = last.modifiers

C19_Witness ==
    /\ Keystroke
    /\ SectionsWith(alast.keycode) = {}
    /\ pressed # {}
    /\ modifiers # {}
    /\ app_modifiers # {}

(* C20: a key's pressed flag is set after its press and clear after its    *)
(* release, also when it was pressed twice without a release; the other    *)
(* keys' flags are untouched; and when every key pressed has been released *)
(* since, no flag is set.                                                   *)
C20_PressedFlag ==
    /\ (Keystroke /\ alast.key # NoKey) =>
          /\ squeek_key_is_pressed(pressed, alast.key)
                <=> (alast.type = SPI_KEY_PRESSED)
          /\ pressed \ {alast.key} = alast.pressed \ {alast.key}
          /\ alast.handled
    /\ alast.unreleased = {} => pressed = {}

C20_Witness ==
    /\ Keystroke
    /\ alast.type = SPI_KEY_PRESSED
    /\ alast.key \in alast.pressed
    /\ alast.key \in pressed
    /\ Cardinality(pressed) >= 2

(* The dimensions of a key's symbol table: one more than the largest group *)
(* and the largest level at which it holds a symbol.                       *)
Max(S) == CHOOSE x \in S : \A y \in S : x >= y

NumGroups(key) ==
    Max({0} \cup {g + 1 : g \in {h \in Groups : \E l \in Levels :
                                  symbol_matrix(key, h, l) # NULL}})

NumLevels(key) ==
    Max({0} \cup {l + 1 : l \in {k \in Levels : \E g \in Groups :
                                  symbol_matrix(key, g, k) # NULL}})

(* C17: in every reachable state (group, level) lies within the dimensions *)
(* of the symbol table of every loaded key.                                *)
C17_IndexWithinTables ==
    \A key \in KeyNames :
        /\ group < NumGroups(key)
        /\ level < NumLevels(key)

ButtonPress == vlast.event = "press"
LastAction == ButtonAction(vlast.button)
LastNamed ==
    IF LastAction.type = "Locking"
    THEN {LastAction.view, LastAction.unlock_view}
    ELSE IF LastAction.type = "SetView" THEN {LastAction.view} ELSE {}
IndexKept ==
    /\ group = last.group
    /\ level = last.level
    /\ modifiers = last.modifiers
    /\ emitted = <<>>

(* What one press of a Locking button whose views exist does: away from    *)
(* lock_view it switches to lock_view and marks it locked; in lock_view    *)
(* and locked it switches to unlock_view and clears the lock.              *)
LockingPressToggles ==
    (ButtonPress /\ LastAction.type = "Locking"
                 /\ LastNamed \subseteq loaded_views) =>
        /\ vlast.view # LastAction.view =>
              /\ current_view = LastAction.view
              /\ locked_view = {LastAction.view}
        /\ (vlast.view = LastAction.view /\ LastAction.view \in vlast.locked) =>
              /\ current_view = LastAction.unlock_view
              /\ locked_view = {}

C13_SetViewStays ==
    vlast.shown # "" => current_view = vlast.shown

C13_Witness ==
    /\ ButtonPress
    /\ ~ViewChanging(vlast.button)
    /\ vlast.shown = "numbers"
    /\ vlast.view = "numbers"
    /\ locked_view = {}

(* C14: applying a SetView or Locking action leaves group, level and the   *)
(* modifier mask as they were.                                             *)
C14_ViewActionsKeepIndex ==
    (ButtonPress /\ ViewChanging(vlast.button)) => IndexKept

C14_Witness ==
    /\ ButtonPress
    /\ LastAction.type = "SetView"
    /\ current_view # vlast.view
    /\ modifiers # {}
    /\ level # 0

(* C15: a SetView or Locking action that names a view the layout does not  *)
(* have is dropped as a whole: views, lock, group, level and mask stay and *)
(* nothing is notified.                                                    *)
C15_DanglingViewDropped ==
    (ButtonPress /\ ViewChanging(vlast.button)
                 /\ ~(LastNamed \subseteq loaded_views)) =>
        /\ current_view = vlast.view
        /\ locked_view = vlast.locked
        /\ IndexKept
        /\ ~vlast.notified

C15_Witness ==
    /\ ButtonPress
    /\ ViewChanging(vlast.button)
    /\ ~(LastNamed \subseteq loaded_views)
    /\ locked_view # {}
    /\ modifiers # {}

(* C16: pressing or releasing a button whose action is Erase or            *)
(* ShowPreferences changes neither the views nor group, level or the mask; *)
(* a press only signals the transport.                                     *)
C16_TerminalEffectsKeepState ==
    (vlast.event # "" /\ LastAction.type \in {"Erase", "ShowPreferences"}) =>
        /\ current_view = vlast.view
        /\ locked_view = vlast.locked
        /\ IndexKept
        /\ ~vlast.notified
        /\ ButtonPress => vlast.effect = LastAction.type

C16_Witness ==
    /\ ButtonPress
    /\ LastAction.type = "Erase"
    /\ vlast.effect = "Erase"
    /\ current_view = "numbers"
    /\ locked_view = {}
    /\ modifiers # {}

(* C21: what a handler of symbol-index-changed reads during a press or     *)
(* release is the state the event ends in: group, level and mask hold      *)
(* their final values and level is the value that mask implies.            *)
C21_NotificationSeesFinalState ==
    KeyEvent =>
        \A i \in 1..Len(emitted) :
            /\ emitted[i].group = group
            /\ emitted[i].level = level
            /\ emitted[i].modifiers = modifiers
            /\ emitted[i].level = LevelFromModifiers(emitted[i].modifiers)

(* A release that changed both the mask and the level and notified. *)
C21_Witness ==
    /\ last.op = "release"
    /\ emitted # <<>>
    /\ modifiers # last.modifiers
    /\ level # last.level
    /\ modifiers # {}

(* C22: a keyboard just created, at start-up and after a layout reload,    *)
(* has group 0, level 0, an empty modifier mask, behaviour None and no     *)
(* locked view.                                                            *)
C22_NewKeyboardState ==
    last.op \in {"init", "changed"} =>
        /\ group = 0
        /\ level = 0
        /\ modifiers = {}
        /\ modifier_behavior = EEK_MODIFIER_BEHAVIOR_NONE
        /\ locked_view = {}

(* A reload that replaced a keyboard with a held modifier and level 1. *)
C22_Witness ==
    /\ last.op = "changed"
    /\ last.modifiers # {}
    /\ last.level = 1
    /\ pressed = {}

(* The views an action names. *)
Named(action) ==
    IF action.type = "Locking" THEN {action.view, action.unlock_view}
    ELSE IF action.type = "SetView" THEN {action.view} ELSE {}

(* C23: in gr+polytonic.yaml every view named by a set_view action or by   *)
(* the lock_view / unlock_view of a locking action is a key of the views   *)
(* map, so that with this layout loaded no button press requests a view    *)
(* that does not exist and the current view is always one of the map.      *)
C23_ShippedLayoutViewsExist ==
    /\ \A view \in Views : \A button \in ViewButtons(view) :
          Named(ButtonAction(button)) \subseteq Views
    /\ loaded_views = Views =>
          /\ current_view \in Views
          /\ ButtonPress => Named(ButtonAction(vlast.button)) \subseteq loaded_views

(* With the shipped layout loaded, the SetView button of "symbols" that    *)
(* leads to "numbers".                                                     *)
C23_Witness ==
    /\ loaded_views = Views
    /\ ButtonPress
    /\ ButtonAction(vlast.button).type = "SetView"
    /\ vlast.view = "symbols"
    /\ current_view = "numbers"

(* C24: right after a press or release whose key has a symbol at the       *)
(* (group, level) it was handled at, level is 2 for MOD5 plus 1 for SHIFT  *)
(* of the mask the event ends with; no other bit counts and level is one   *)
(* of 0, 1, 2, 3.                                                          *)
C24_LevelBitsAfterKeyEvent ==
    (KeyEvent /\ eek_key_get_symbol_at_index(last.key, last.group, last.level) # NULL) =>
        /\ level = (IF "MOD5" \in modifiers THEN 2 ELSE 0)
                   + (IF "SHIFT" \in modifiers THEN 1 ELSE 0)
        /\ level \in 0..3

(* A key event that ends with CONTROL, MOD5 and SHIFT set and level 3. *)
C24_Witness ==
    /\ KeyEvent
    /\ eek_key_get_symbol_at_index(last.key, last.group, last.level) # NULL
    /\ modifiers = EEK_CONTROL_MASK \cup EEK_MOD5_MASK \cup EEK_SHIFT_MASK
    /\ level = 3
    /\ last.level # 3

(* C25: set_group changes group only and set_level changes level only,     *)
(* the mask staying in both; set_symbol_index emits symbol-index-changed   *)
(* once when its arguments differ from the stored pair and not at all when *)
(* they are the stored pair.                                               *)
C25_SettersFrame ==
    /\ last.op = "set_group" =>
          /\ group = last.args[1]
          /\ level = last.level
          /\ modifiers = last.modifiers
    /\ last.op = "set_level" =>
          /\ level = last.args[1]
          /\ group = last.group
          /\ modifiers = last.modifiers
    /\ last.op = "set_symbol_index" =>
          /\ <<group, level>> = last.args
          /\ modifiers = last.modifiers
          /\ Len(emitted) = IF last.args # <<last.group, last.level>> THEN 1 ELSE 0
          /\ emitted # <<>> =>
                /\ emitted[1].group = last.args[1]
                /\ emitted[1].level = last.args[2]

(* set_group moved the group of a keyboard with level 3 and a full mask. *)
C25_Witness ==
    /\ last.op = "set_group"
    /\ group # last.group
    /\ level = 3
    /\ modifiers = EEK_MOD5_MASK \cup EEK_SHIFT_MASK
    /\ Len(emitted) = 1

(* C27: no press and no release, under any behaviour, changes group. *)
C27_KeyEventsKeepGroup ==
    KeyEvent => group = last.group

(* A press in group 1 that changed the mask and the level. *)
C27_Witness ==
    /\ last.op = "press"
    /\ group = 1
    /\ level # last.level
    /\ modifiers # last.modifiers
    /\ emitted # <<>>

IsModifierKey(key) ==
    \E g \in Groups, l \in Levels :
        /\ eek_key_get_symbol_at_index(key, g, l) # NULL
        /\ eek_symbol_get_modifier_mask(eek_key_get_symbol_at_index(key, g, l)) # {}

(* C26 as stated: under None, with every key released after its press,      *)
(* whenever no modifier key is held down the mask is empty and level is 0.  *)
C26_NoModifierHeldMeansEmptyMask ==
    (\A key \in pressed : ~IsModifierKey(key)) =>
        /\ modifiers = {}
        /\ level = 0

(* The keysym the key has at the index the keystroke started from. *)
KeysymBefore == eek_key_get_symbol_at_index(alast.key, last.group, last.level).keysym

(* C28: the handler connected to key-pressed runs before the keyboard's own *)
(* update, so it resolves the key at the (group, level) from before the     *)
(* press: a Shift, Control or Alt keysym found there toggles the            *)
(* application's bit and forwards nothing, any other keysym found there is  *)
(* the one forwarded, with the application's modifiers from before.         *)
C28_HandlerSeesPrePressIndex ==
    (Keystroke /\ alast.handled /\ alast.type = SPI_KEY_PRESSED) =>
        IF KeysymBefore \in {"Shift_L", "Shift_R"}
        THEN /\ alast.forwarded = <<>>
             /\ app_modifiers = BitXor(alast.app_modifiers, ShiftMask)
        ELSE IF KeysymBefore \in {"Control_L", "Control_R"}
        THEN /\ alast.forwarded = <<>>
             /\ app_modifiers = BitXor(alast.app_modifiers, ControlMask)
        ELSE IF KeysymBefore \in {"Alt_L", "Alt_R"}
        THEN /\ alast.forwarded = <<>>
             /\ app_modifiers = BitXor(alast.app_modifiers, Mod1Mask)
        ELSE /\ alast.forwarded =
                    << [call |-> "fakekey_press_keysym", keysym |-> KeysymBefore,
                        modifiers |-> alast.app_modifiers] >>
             /\ app_modifiers = alast.app_modifiers

(* The one-level Shift_R pressed at level 0: the handler saw its symbol    *)
(* although the key has none at the level the press produced.              *)
C28_Witness ==
    /\ Keystroke
    /\ alast.handled
    /\ alast.type = SPI_KEY_PRESSED
    /\ alast.key = "Shift_R"
    /\ last.level = 0
    /\ level = 1
    /\ eek_key_get_symbol_at_index("Shift_R", group, level) = NULL
    /\ ShiftMask \subseteq app_modifiers

(* C30 as stated: on one keyboard (no reload so far) the level is 1 exactly *)
(* when ShiftMask is set in the application's modifiers and 0 otherwise,    *)
(* and no keystroke changes group.                                          *)
C30_LevelFollowsShiftMask ==
    ~alast.reloaded =>
        /\ level = (IF ShiftMask \subseteq app_modifiers THEN 1 ELSE 0)
        /\ Keystroke => group = last.group

(* The bit of the application's modifiers a keysym stands for, if any. *)
ModifierBit(keysym) ==
    IF keysym \in {"Shift_L", "Shift_R"} THEN ShiftMask
    ELSE IF keysym \in {"Control_L", "Control_R"} THEN ControlMask
    ELSE IF keysym \in {"Alt_L", "Alt_R"} THEN Mod1Mask
    ELSE {}

PressSuccessors(x) ==
    {LET s == apply([State EXCEPT !.current_view = x[1], !.locked_view = x[2]],
                    interpret(ButtonAction(button)), Views)
     IN  <<s.current_view, s.locked_view>> : button \in ViewButtons(x[1])}

RECURSIVE PressClosure(_)
PressClosure(S) ==
    LET T == S \cup UNION {PressSuccessors(x) : x \in S}
    IN  IF T = S THEN S ELSE PressClosure(T)

(* The views some sequence of button presses shows, starting from a pair. *)
ViewsReachableFrom(x) == {y[1] : y \in PressClosure({x})}

(* C32: in gr+polytonic.yaml every view is shown by some sequence of       *)
(* button presses starting in "base" with nothing locked, and from every   *)
(* state the view machine gets into some sequence of button presses shows  *)
(* "base" again.                                                           *)
C32_ViewsReachableAndNoDeadEnd ==
    loaded_views = Views =>
        /\ ViewsReachableFrom(<<"base", {}>>) = Views
        /\ "base" \in ViewsReachableFrom(<<current_view, locked_view>>)

(* An upper-case accent view, two set_view presses behind the locked       *)
(* "accents" view.                                                         *)
C32_Witness ==
    /\ loaded_views = Views
    /\ current_view = "PsiliOrDasiaAndPerispomeni"
    /\ locked_view = {"accents"}
    /\ ButtonPress
    /\ vlast.view = "psiliordasiaandperispomeni"

(* C33 as stated: when eekboard_new fails the structure is freed, NULL is   *)
(* returned and main does nothing through the pointer: it does not read the *)
(* registry, create a widget or enter the main loop.                        *)
C33_FailedNewIsNotUsed ==
    eekboard = "NULL" =>
        /\ heap = "freed"
        /\ used = {}

(* The text yamlfmt read, and whether dumping what it parsed gives it back. *)
GivenText == read(given)

Reproduced == dump(load(GivenText)) = GivenText

(* C34: once yamlfmt has run on a file that parses: if dumping the parsed   *)
(* content reproduces the text, nothing was written, the file is as it was  *)
(* and the status is 0; if not and --apply was not given, the file is as it *)
(* was and the status is 1; if not and --apply was given, the file holds    *)
(* the dumped text, written once, and the status is 0.  Whatever the file,  *)
(* it is written only with --apply and only when the dump differs.          *)
C34_YamlfmtOutcome ==
    fmt_pc = "exited" =>
        /\ load(GivenText) # ParseError =>
              /\ Reproduced =>
                    /\ written = <<>>
                    /\ file = given
                    /\ exit_status = 0
              /\ (~Reproduced /\ ~want_apply) =>
                    /\ written = <<>>
                    /\ file = given
                    /\ exit_status = 1
              /\ (~Reproduced /\ want_apply) =>
                    /\ written = <<dump(load(GivenText))>>
                    /\ file = dump(load(GivenText))
                    /\ exit_status = 0
        /\ (written # <<>> \/ file # given) =>
              /\ want_apply
              /\ load(GivenText) # ParseError
              /\ ~Reproduced

(* A file with a misplaced dash column and a wide gap was rewritten under   *)
(* --apply.                                                                 *)
C34_Witness ==
    /\ fmt_pc = "exited"
    /\ want_apply
    /\ Len(given) = MaxLines
    /\ \A i \in 1..Len(given) : given[i].indent = 0 /\ given[i].gap # 1
    /\ file # given
    /\ Len(written) = 1
    /\ exit_status = 0
====
